---- MODULE Spec2Model ----
(***************************************************************************)
(* A model of kord's pitch spelling table (named_pitch.rs), its note and   *)
(* octave parsers (core/parser.rs) and its WASM wrappers (wasm.rs).        *)
(*                                                                         *)
(* Rust values are modelled as follows.                                    *)
(*   - An enum value is the string of its variant name ("FTripleFlat").    *)
(*   - A &str is the sequence of its characters; an ASCII character is a   *)
(*     one-character string, a non-ASCII character is the string of its    *)
(*     code point (SHARP, FLAT, DOUBLE_SHARP, DOUBLE_FLAT below), so that  *)
(*     "A#" and "A" followed by U+266F are different strings, as in Rust.  *)
(*   - A Result is a record Ok(v) or Err(msg); a call that panics yields   *)
(*     Panic(msg) in place of a return value.                              *)
(***************************************************************************)
EXTENDS Integers, Sequences, FiniteSets, TLC

VARIABLES
    np_self,    \* SpecPitch: the NamedPitch the next call is made on
    np_ret,     \* SpecPitch: the last call made on a NamedPitch and its outcome
    str,        \* SpecParse: the string handed to a parser
    str_from,   \* SpecParse: the NamedPitch str is the display name of, or "none"
    parse_ret,  \* SpecParse: the last parser call and its outcome
    kord_notes, \* SpecWasm: the KordNote objects the host holds, by handle
    kord_chords,\* SpecWasm: the KordChord objects the host holds, by handle
    identified, \* SpecWasm: per KordChord, Some(the identities of the notes it
                \* was identified from) or None
    wasm_ret,   \* SpecWasm: the last call of the binding and its outcome
    ref_abi, \* SpecRef: the JsValue handed to ref_from_js_value
    ref_type, \* SpecRef: the type it is asked to be: "KordNote" or "KordChord"
    ref_pc, \* SpecRef: the statement ref_from_js_value is at
    ref_ptr, \* SpecRef: the pointer it has read
    ref_trace, \* SpecRef: the checks and the dereference it has made, in order
    ref_ret, \* SpecRef: what it returned, once it has
    ns_notes, \* SpecNotes: the string handed to fromNotesString or to parse
    ns_calls, \* SpecNotes: the calls into the engine the last call made, in order
    ns_ret, \* SpecNotes: the last call on the string and its outcome
    mod_list, \* SpecModifier: the modifiers of a chord, to be handed to the host
    mod_ret, \* SpecModifier: the last conversion made and its outcome
    sim_index, \* SpecSim: the position in ALL_PITCH_NOTES of the root the loop is at
    sim_k, \* SpecSim: the chord type the loop is at
    sim_item \* SpecSim: the item the loop has just pushed, or None

vars ==
    <<np_self, np_ret, str, str_from, parse_ret, kord_notes, kord_chords,
      identified, wasm_ret,
      ref_abi, ref_type, ref_pc, ref_ptr, ref_trace, ref_ret,
      ns_notes, ns_calls, ns_ret,
      mod_list, mod_ret,
      sim_index, sim_k, sim_item>>

pitchVars == <<np_self, np_ret>>

parseVars == <<str, str_from, parse_ret>>

wasmVars == <<kord_notes, kord_chords, identified, wasm_ret>>

refVars == <<ref_abi, ref_type, ref_pc, ref_ptr, ref_trace, ref_ret>>

nsVars == <<ns_notes, ns_calls, ns_ret>>

modVars == <<mod_list, mod_ret>>

simVars == <<sim_index, sim_k, sim_item>>

\* What the actions of one specification leave alone: the other
\* specifications' variables.
pitchRest == <<parseVars, wasmVars, refVars, nsVars, modVars, simVars>>

parseRest == <<pitchVars, wasmVars, refVars, nsVars, modVars, simVars>>

wasmRest == <<pitchVars, parseVars, refVars, nsVars, modVars, simVars>>

refRest == <<pitchVars, parseVars, wasmVars, nsVars, modVars, simVars>>

nsRest == <<pitchVars, parseVars, wasmVars, refVars, modVars, simVars>>

modRest == <<pitchVars, parseVars, wasmVars, refVars, nsVars, simVars>>

simRest == <<pitchVars, parseVars, wasmVars, refVars, nsVars, modVars>>

----------------------------------------------------------------------------
(* Outcomes of a call. *)

Ok(v) == [kind |-> "Ok", value |-> v]

Err(msg) == [kind |-> "Err", value |-> msg]

Panic(msg) == [kind |-> "Panic", value |-> msg]

\* The state before any call has been made.
NoCall == [op |-> "none", self |-> "none", arg |-> "none", ret |-> Ok("none")]

----------------------------------------------------------------------------
(* base.rs: the accidental glyphs, by code point. *)

SHARP == "U+266F"

FLAT == "U+266D"

DOUBLE_SHARP == "U+1D12A"

DOUBLE_FLAT == "U+1D12B"

----------------------------------------------------------------------------
(* named_pitch.rs *)

\* enum NamedPitch, in declaration order: #[repr(u8)] numbers the variants
\* 0..48 in this order, and the derived PartialEq/Ord compare that number.
NamedPitchVariants ==
    <<"FTripleFlat", "CTripleFlat", "GTripleFlat", "DTripleFlat", "ATripleFlat", "ETripleFlat", "BTripleFlat",
      "FDoubleFlat", "CDoubleFlat", "GDoubleFlat", "DDoubleFlat", "ADoubleFlat", "EDoubleFlat", "BDoubleFlat",
      "FFlat", "CFlat", "GFlat", "DFlat", "AFlat", "EFlat", "BFlat",
      "F", "C", "G", "D", "A", "E", "B",
      "FSharp", "CSharp", "GSharp", "DSharp", "ASharp", "ESharp", "BSharp",
      "FDoubleSharp", "CDoubleSharp", "GDoubleSharp", "DDoubleSharp", "ADoubleSharp", "EDoubleSharp", "BDoubleSharp",
      "FTripleSharp", "CTripleSharp", "GTripleSharp", "DTripleSharp", "ATripleSharp", "ETripleSharp", "BTripleSharp">>

NamedPitch == {NamedPitchVariants[i] : i \in DOMAIN NamedPitchVariants}

\* The discriminant of a variant (self as u8).
discriminant(self) ==
    (CHOOSE i \in DOMAIN NamedPitchVariants : NamedPitchVariants[i] = self) - 1

\* impl HasLetter for NamedPitch: the match of letter()
NamedPitch_letter(self) ==
    CASE self = "FTripleFlat" -> "F"
      [] self = "CTripleFlat" -> "C"
      [] self = "GTripleFlat" -> "G"
      [] self = "DTripleFlat" -> "D"
      [] self = "ATripleFlat" -> "A"
      [] self = "ETripleFlat" -> "E"
      [] self = "BTripleFlat" -> "B"
      [] self = "FDoubleFlat" -> "F"
      [] self = "CDoubleFlat" -> "C"
      [] self = "GDoubleFlat" -> "G"
      [] self = "DDoubleFlat" -> "D"
      [] self = "ADoubleFlat" -> "A"
      [] self = "EDoubleFlat" -> "E"
      [] self = "BDoubleFlat" -> "B"
      [] self = "FFlat" -> "F"
      [] self = "CFlat" -> "C"
      [] self = "GFlat" -> "G"
      [] self = "DFlat" -> "D"
      [] self = "AFlat" -> "A"
      [] self = "EFlat" -> "E"
      [] self = "BFlat" -> "B"
      [] self = "F" -> "F"
      [] self = "C" -> "C"
      [] self = "G" -> "G"
      [] self = "D" -> "D"
      [] self = "A" -> "A"
      [] self = "E" -> "E"
      [] self = "B" -> "B"
      [] self = "FSharp" -> "F"
      [] self = "CSharp" -> "C"
      [] self = "GSharp" -> "G"
      [] self = "DSharp" -> "D"
      [] self = "ASharp" -> "A"
      [] self = "ESharp" -> "E"
      [] self = "BSharp" -> "B"
      [] self = "FDoubleSharp" -> "F"
      [] self = "CDoubleSharp" -> "C"
      [] self = "GDoubleSharp" -> "G"
      [] self = "DDoubleSharp" -> "D"
      [] self = "ADoubleSharp" -> "A"
      [] self = "EDoubleSharp" -> "E"
      [] self = "BDoubleSharp" -> "B"
      [] self = "FTripleSharp" -> "F"
      [] self = "CTripleSharp" -> "C"
      [] self = "GTripleSharp" -> "G"
      [] self = "DTripleSharp" -> "D"
      [] self = "ATripleSharp" -> "A"
      [] self = "ETripleSharp" -> "E"
      [] self = "BTripleSharp" -> "B"

\* A letter that is not the variant's: the arm of the neighbouring variant.
letter_slip(self) ==
    IF self = "ESharp" THEN "F" ELSE NamedPitch_letter(self)

letter(self) == NamedPitch_letter(self)

\* impl HasStaticName for NamedPitch: the match of static_name()
NamedPitch_static_name(self) ==
    CASE self = "FTripleFlat" -> <<"F", FLAT, DOUBLE_FLAT>>
      [] self = "CTripleFlat" -> <<"C", FLAT, DOUBLE_FLAT>>
      [] self = "GTripleFlat" -> <<"G", FLAT, DOUBLE_FLAT>>
      [] self = "DTripleFlat" -> <<"D", FLAT, DOUBLE_FLAT>>
      [] self = "ATripleFlat" -> <<"A", FLAT, DOUBLE_FLAT>>
      [] self = "ETripleFlat" -> <<"E", FLAT, DOUBLE_FLAT>>
      [] self = "BTripleFlat" -> <<"B", FLAT, DOUBLE_FLAT>>
      [] self = "FDoubleFlat" -> <<"F", DOUBLE_FLAT>>
      [] self = "CDoubleFlat" -> <<"C", DOUBLE_FLAT>>
      [] self = "GDoubleFlat" -> <<"G", DOUBLE_FLAT>>
      [] self = "DDoubleFlat" -> <<"D", DOUBLE_FLAT>>
      [] self = "ADoubleFlat" -> <<"A", DOUBLE_FLAT>>
      [] self = "EDoubleFlat" -> <<"E", DOUBLE_FLAT>>
      [] self = "BDoubleFlat" -> <<"B", DOUBLE_FLAT>>
      [] self = "FFlat" -> <<"F", FLAT>>
      [] self = "CFlat" -> <<"C", FLAT>>
      [] self = "GFlat" -> <<"G", FLAT>>
      [] self = "DFlat" -> <<"D", FLAT>>
      [] self = "AFlat" -> <<"A", FLAT>>
      [] self = "EFlat" -> <<"E", FLAT>>
      [] self = "BFlat" -> <<"B", FLAT>>
      [] self = "F" -> <<"F">>
      [] self = "C" -> <<"C">>
      [] self = "G" -> <<"G">>
      [] self = "D" -> <<"D">>
      [] self = "A" -> <<"A">>
      [] self = "E" -> <<"E">>
      [] self = "B" -> <<"B">>
      [] self = "FSharp" -> <<"F", SHARP>>
      [] self = "CSharp" -> <<"C", SHARP>>
      [] self = "GSharp" -> <<"G", SHARP>>
      [] self = "DSharp" -> <<"D", SHARP>>
      [] self = "ASharp" -> <<"A", SHARP>>
      [] self = "ESharp" -> <<"E", SHARP>>
      [] self = "BSharp" -> <<"B", SHARP>>
      [] self = "FDoubleSharp" -> <<"F", DOUBLE_SHARP>>
      [] self = "CDoubleSharp" -> <<"C", DOUBLE_SHARP>>
      [] self = "GDoubleSharp" -> <<"G", DOUBLE_SHARP>>
      [] self = "DDoubleSharp" -> <<"D", DOUBLE_SHARP>>
      [] self = "ADoubleSharp" -> <<"A", DOUBLE_SHARP>>
      [] self = "EDoubleSharp" -> <<"E", DOUBLE_SHARP>>
      [] self = "BDoubleSharp" -> <<"B", DOUBLE_SHARP>>
      [] self = "FTripleSharp" -> <<"F", SHARP, DOUBLE_SHARP>>
      [] self = "CTripleSharp" -> <<"C", SHARP, DOUBLE_SHARP>>
      [] self = "GTripleSharp" -> <<"G", SHARP, DOUBLE_SHARP>>
      [] self = "DTripleSharp" -> <<"D", SHARP, DOUBLE_SHARP>>
      [] self = "ATripleSharp" -> <<"A", SHARP, DOUBLE_SHARP>>
      [] self = "ETripleSharp" -> <<"E", SHARP, DOUBLE_SHARP>>
      [] self = "BTripleSharp" -> <<"B", SHARP, DOUBLE_SHARP>>

\* A flat printed with the sharp sign.
static_name_slip(self) ==
    IF self = "BFlat" THEN <<"B", SHARP>> ELSE NamedPitch_static_name(self)

static_name(self) == NamedPitch_static_name(self)

\* impl HasPitch for NamedPitch: the match of pitch()
NamedPitch_pitch(self) ==
    CASE self = "FTripleFlat" -> "D"
      [] self = "CTripleFlat" -> "A"
      [] self = "GTripleFlat" -> "E"
      [] self = "DTripleFlat" -> "B"
      [] self = "ATripleFlat" -> "FSharp"
      [] self = "ETripleFlat" -> "CSharp"
      [] self = "BTripleFlat" -> "GSharp"
      [] self = "FDoubleFlat" -> "DSharp"
      [] self = "CDoubleFlat" -> "ASharp"
      [] self = "GDoubleFlat" -> "F"
      [] self = "DDoubleFlat" -> "C"
      [] self = "ADoubleFlat" -> "G"
      [] self = "EDoubleFlat" -> "D"
      [] self = "BDoubleFlat" -> "A"
      [] self = "FFlat" -> "E"
      [] self = "CFlat" -> "B"
      [] self = "GFlat" -> "FSharp"
      [] self = "DFlat" -> "CSharp"
      [] self = "AFlat" -> "GSharp"
      [] self = "EFlat" -> "DSharp"
      [] self = "BFlat" -> "ASharp"
      [] self = "F" -> "F"
      [] self = "C" -> "C"
      [] self = "G" -> "G"
      [] self = "D" -> "D"
      [] self = "A" -> "A"
      [] self = "E" -> "E"
      [] self = "B" -> "B"
      [] self = "FSharp" -> "FSharp"
      [] self = "CSharp" -> "CSharp"
      [] self = "GSharp" -> "GSharp"
      [] self = "DSharp" -> "DSharp"
      [] self = "ASharp" -> "ASharp"
      [] self = "ESharp" -> "F"
      [] self = "BSharp" -> "C"
      [] self = "FDoubleSharp" -> "G"
      [] self = "CDoubleSharp" -> "D"
      [] self = "GDoubleSharp" -> "A"
      [] self = "DDoubleSharp" -> "E"
      [] self = "ADoubleSharp" -> "B"
      [] self = "EDoubleSharp" -> "FSharp"
      [] self = "BDoubleSharp" -> "CSharp"
      [] self = "FTripleSharp" -> "GSharp"
      [] self = "CTripleSharp" -> "DSharp"
      [] self = "GTripleSharp" -> "ASharp"
      [] self = "DTripleSharp" -> "F"
      [] self = "ATripleSharp" -> "C"
      [] self = "ETripleSharp" -> "G"
      [] self = "BTripleSharp" -> "D"

\* An arm that forgets the enharmonic step: E sharp sounds as F, not as E.
pitch_slip(self) ==
    IF self = "ESharp" THEN "E" ELSE NamedPitch_pitch(self)

pitch(self) == NamedPitch_pitch(self)

\* The table with its last entry a copy of the one before it.
ALL_PITCHES_slip ==
    [i \in 1..49 |-> IF i = 49 THEN NamedPitchVariants[48]
                     ELSE NamedPitchVariants[i]]

\* static ALL_PITCHES: [NamedPitch; 49]; ALL_PITCHES[i + 1] here is
\* ALL_PITCHES[i] in Rust.
ALL_PITCHES ==
    <<"FTripleFlat", "CTripleFlat", "GTripleFlat", "DTripleFlat", "ATripleFlat", "ETripleFlat", "BTripleFlat",
      "FDoubleFlat", "CDoubleFlat", "GDoubleFlat", "DDoubleFlat", "ADoubleFlat", "EDoubleFlat", "BDoubleFlat",
      "FFlat", "CFlat", "GFlat", "DFlat", "AFlat", "EFlat", "BFlat",
      "F", "C", "G", "D", "A", "E", "B",
      "FSharp", "CSharp", "GSharp", "DSharp", "ASharp", "ESharp", "BSharp",
      "FDoubleSharp", "CDoubleSharp", "GDoubleSharp", "DDoubleSharp", "ADoubleSharp", "EDoubleSharp", "BDoubleSharp",
      "FTripleSharp", "CTripleSharp", "GTripleSharp", "DTripleSharp", "ATripleSharp", "ETripleSharp", "BTripleSharp">>

\* The accidental count a variant is named after: XTripleFlat is -3,
\* XDoubleFlat -2, XFlat -1, X 0, XSharp 1, XDoubleSharp 2, XTripleSharp 3.
accidental(self) ==
    CASE self \in {"FTripleFlat", "CTripleFlat", "GTripleFlat", "DTripleFlat", "ATripleFlat", "ETripleFlat", "BTripleFlat"} -> -3
      [] self \in {"FDoubleFlat", "CDoubleFlat", "GDoubleFlat", "DDoubleFlat", "ADoubleFlat", "EDoubleFlat", "BDoubleFlat"} -> -2
      [] self \in {"FFlat", "CFlat", "GFlat", "DFlat", "AFlat", "EFlat", "BFlat"} -> -1
      [] self \in {"F", "C", "G", "D", "A", "E", "B"} -> 0
      [] self \in {"FSharp", "CSharp", "GSharp", "DSharp", "ASharp", "ESharp", "BSharp"} -> 1
      [] self \in {"FDoubleSharp", "CDoubleSharp", "GDoubleSharp", "DDoubleSharp", "ADoubleSharp", "EDoubleSharp", "BDoubleSharp"} -> 2
      [] self \in {"FTripleSharp", "CTripleSharp", "GTripleSharp", "DTripleSharp", "ATripleSharp", "ETripleSharp", "BTripleSharp"} -> 3

\* #[derive(PartialEq, Eq)]: two values are equal when they are the same
\* variant.
NamedPitch_eq_by_pitch(a, b) == pitch(a) = pitch(b)

NamedPitch_eq(a, b) == discriminant(a) = discriminant(b)

\* #[derive(PartialOrd, Ord)]: variants are ordered by declaration.
NamedPitch_cmp(a, b) ==
    IF discriminant(a) < discriminant(b) THEN "Less"
    ELSE IF discriminant(a) > discriminant(b) THEN "Greater"
    ELSE "Equal"

\* i8
I8Min == -128

I8Max == 127

\* An i8 sum that leaves the i8 range wraps around (two's complement) when
\* the build has no overflow checks.
wrap_i8(n) == ((n - I8Min) % (I8Max - I8Min + 1)) + I8Min

\* ALL_PITCHES.iter().position(|&p| p == self): the first 0-based index whose
\* entry equals self.  An Option is a sequence: <<>> is None, <<i>> is Some(i).
position(self) ==
    LET hits == {i \in DOMAIN ALL_PITCHES : NamedPitch_eq(ALL_PITCHES[i], self)}
    IN  IF hits = {} THEN <<>>
        ELSE <<(CHOOSE i \in hits : \A j \in hits : i <= j) - 1>>

\* impl Add<i8> for NamedPitch.  overflow_checks is the build's setting
\* (on in a debug build, off in a release build): with it an i8 overflow of
\* index + rhs panics, without it the sum wraps.
add(self, rhs, overflow_checks) ==
    IF position(self) = <<>>
    THEN Panic("called Option::unwrap() on a None value")
    ELSE
    LET index == position(self)[1]
        sum == index + rhs
    IN
    IF (sum < I8Min \/ sum > I8Max) /\ overflow_checks
    THEN Panic("attempt to add with overflow")
    ELSE
    LET new_index == wrap_i8(sum) IN
    IF ~(0 <= new_index /\ new_index <= 49)
    THEN Panic("NamedPitch out of range.")
    ELSE IF new_index >= Len(ALL_PITCHES)
    THEN Panic("index out of bounds")
    ELSE Ok(ALL_PITCHES[new_index + 1])

----------------------------------------------------------------------------
(* pitch.rs, octave.rs, interval.rs, note.rs: what wasm.rs, parser.rs and  *)
(* named_pitch.rs use of them.                                             *)

\* enum Pitch: the twelve pitch classes, each named after its semitone.
PitchValues ==
    <<"C", "CSharp", "D", "DSharp", "E", "F", "FSharp", "G", "GSharp", "A",
      "ASharp", "B">>

Pitch == {PitchValues[i] : i \in DOMAIN PitchValues}

PitchSemitone(p) == (CHOOSE i \in DOMAIN PitchValues : PitchValues[i] = p) - 1

\* enum Octave: the ten octaves octave_str_to_octave names, and the number
\* each is (octave as u8).
Octaves ==
    <<"Zero", "One", "Two", "Three", "Four", "Five", "Six", "Seven", "Eight",
      "Nine">>

OctaveValue(o) == (CHOOSE i \in DOMAIN Octaves : Octaves[i] = o) - 1

\* Octave::try_from(u8)
Octave_try_from(n) ==
    IF n + 1 \in DOMAIN Octaves THEN Ok(Octaves[n + 1])
    ELSE Err("Invalid octave.")

\* struct Note: a spelling bound to an octave.
Note(named_pitch, octave) == [named_pitch |-> named_pitch, octave |-> octave]

\* The identity of a note: twelve per octave, enharmonic spellings sharing one.
Note_id(note) ==
    12 * OctaveValue(note.octave) + PitchSemitone(pitch(note.named_pitch))

MaxNoteId == 12 * Len(Octaves) - 1

\* The note of an identity, in the spelling of its pitch class.
Note_from_id(id) == Note(PitchValues[(id % 12) + 1], Octaves[(id \div 12) + 1])

\* impl Add<Interval> for Note; an Interval is its signed semitone count.  The
\* sum is a Note (KordNote::add_interval stores it as one), so a sum outside
\* the octaves has no failure value to return: the addition aborts.
Note_add_interval(note, interval) ==
    LET id == Note_id(note) + interval IN
    IF id < 0 \/ id > MaxNoteId THEN Panic("Octave out of range.")
    ELSE Ok(Note_from_id(id))

\* An Option is a sequence: <<>> is None, <<v>> is Some(v).
None == <<>>

Some(v) == <<v>>

----------------------------------------------------------------------------
(* chord.rs: the chord descriptor, identification (Chord::try_from_notes)  *)
(* and construction (Chord::chord), as the specification describes them.   *)

RECURSIVE SortedSeq(_)
\* The numbers of a finite set, ascending.
SortedSeq(S) ==
    IF S = {} THEN <<>>
    ELSE LET m == CHOOSE x \in S : \A y \in S : x <= y
         IN  <<m>> \o SortedSeq(S \ {m})

Range(s) == {s[i] : i \in DOMAIN s}

\* struct Chord: root, modifiers, extensions, slash, inversion, crunchy flag.
Chord(root, modifiers, extensions) ==
    [root |-> root, modifiers |-> modifiers, extensions |-> extensions,
     slash |-> None, inversion |-> 0, is_crunchy |-> FALSE]

\* The builders of a Chord: each consumes the chord and returns it with one
\* field set.
Chord_with_inversion(chord, inversion) == [chord EXCEPT !.inversion = inversion]

Chord_with_slash(chord, slash) == [chord EXCEPT !.slash = Some(slash)]

Chord_with_octave(chord, octave) == [chord EXCEPT !.root.octave = octave]

Chord_with_crunchy(chord, is_crunchy) == [chord EXCEPT !.is_crunchy = is_crunchy]

\* The tones a list of modifiers defines, in semitones above the root: the
\* triad's third and fifth as the modifiers alter them, and the sevenths and
\* altered tones they add.
ModifierTones(modifiers) ==
    LET has(m) == m \in Range(modifiers)
        third == IF has("Minor") \/ has("Diminished") THEN 3 ELSE 4
        fifth == IF has("Flat5") \/ has("Diminished") THEN 6
                 ELSE IF has("Augmented5") THEN 8 ELSE 7
    IN  {third, fifth}
        \cup (IF has("Major7") THEN {11} ELSE {})
        \cup (IF has("Dominant(Seven)") THEN {10} ELSE {})
        \cup (IF has("Dominant(Nine)") THEN {10, 14} ELSE {})
        \cup (IF has("Dominant(Eleven)") THEN {10, 14, 17} ELSE {})
        \cup (IF has("Dominant(Thirteen)") THEN {10, 14, 17, 21} ELSE {})
        \cup (IF has("Flat9") THEN {13} ELSE {})
        \cup (IF has("Sharp9") THEN {15} ELSE {})
        \cup (IF has("Sharp11") THEN {18} ELSE {})

\* The extension a tone of a pitch-class distance above the root is.
ExtensionTones == {2, 5, 9}

ExtensionOf(distance) ==
    CASE distance = 2 -> "Add9" [] distance = 5 -> "Add11"
      [] distance = 9 -> "Add13"

\* The tone of an extension: an octave above its distance, or, in a crunchy
\* voicing, in the root's octave.
ExtensionTone(extension, is_crunchy) ==
    LET distance == CHOOSE d \in ExtensionTones : ExtensionOf(d) = extension
    IN  IF is_crunchy THEN distance ELSE distance + 12

\* The catalog, in declaration order: the modifier lists whose tones, taken
\* mod 12, are the patterns matched.
Catalog ==
    << <<>>, <<"Minor">>, <<"Flat5">>, <<"Augmented5">>, <<"Diminished">>,
       <<"Major7">>, <<"Dominant(Seven)">>, <<"Minor", "Major7">>,
       <<"Minor", "Dominant(Seven)">>, <<"Dominant(Nine)">>,
       <<"Dominant(Seven)", "Flat9">>, <<"Dominant(Seven)", "Sharp9">> >>

EntryIntervals(k) == {x % 12 : x \in ModifierTones(Catalog[k])}

\* The matches of a relative interval set: an entry it equals, or a simpler
\* entry it is a strict superset of when every other interval is an extension
\* tone, which is folded into the extensions.
CatalogMatches(rel) ==
    {[entry |-> k,
      modifiers |-> Catalog[k],
      extensions |-> [i \in DOMAIN SortedSeq(rel \ EntryIntervals(k)) |->
                         ExtensionOf(SortedSeq(rel \ EntryIntervals(k))[i])]]
       : k \in {j \in DOMAIN Catalog :
                   /\ EntryIntervals(j) \subseteq rel
                   /\ (rel \ EntryIntervals(j)) \subseteq ExtensionTones}}

\* Fewer modifiers and extensions first, then declaration order.
MatchCost(match) ==
    (Len(match.modifiers) + Len(match.extensions)) * (Len(Catalog) + 1)
        + match.entry

\* The candidate of one root pitch class, if the root is accepted.  A single
\* pitch class is a bare root: no modifiers, no extensions.
Candidate(notes, root_class) ==
    LET classes == {Note_id(notes[i]) % 12 : i \in DOMAIN notes}
        rel == {(c - root_class + 12) % 12 : c \in classes \ {root_class}}
        at_root == {i \in DOMAIN notes : Note_id(notes[i]) % 12 = root_class}
        lowest == CHOOSE i \in at_root : \A j \in at_root :
                      \/ Note_id(notes[i]) < Note_id(notes[j])
                      \/ Note_id(notes[i]) = Note_id(notes[j]) /\ i <= j
        matches == CatalogMatches(rel)
        best == CHOOSE m \in matches :
                    \A o \in matches : MatchCost(m) <= MatchCost(o)
    IN  IF rel = {} THEN Some([entry |-> 0,
                               chord |-> Chord(notes[lowest], <<>>, <<>>)])
        ELSE IF matches = {} THEN None
        ELSE Some([entry |-> best.entry,
                   chord |-> Chord(notes[lowest], best.modifiers,
                                   best.extensions)])

\* The rank of a candidate: fewer modifiers and extensions, then a root
\* spelled with a natural letter, then declaration order (then the root).
Rank(candidate) ==
    <<Len(candidate.chord.modifiers) + Len(candidate.chord.extensions),
      IF accidental(candidate.chord.root.named_pitch) = 0 THEN 0 ELSE 1,
      candidate.entry,
      Note_id(candidate.chord.root)>>

RankBefore(a, b) ==
    LET ra == Rank(a)
        rb == Rank(b)
    IN  \E i \in DOMAIN ra :
            /\ ra[i] < rb[i]
            /\ \A j \in 1..(i - 1) : ra[j] = rb[j]

RECURSIVE Ranked(_)
Ranked(candidates) ==
    IF candidates = {} THEN <<>>
    ELSE LET first == CHOOSE c \in candidates :
                          \A o \in candidates \ {c} : RankBefore(c, o)
         IN  <<first.chord>> \o Ranked(candidates \ {first})

\* Chord::try_from_notes: the chords a list of notes can be, best first; a
\* list that matches nothing gives the empty list, not an error.
Chord_try_from_notes(notes) ==
    LET classes == {Note_id(notes[i]) % 12 : i \in DOMAIN notes}
        accepted == {Candidate(notes, c)[1] :
                        c \in {d \in classes : Candidate(notes, d) # None}}
    IN  Ok(Ranked(accepted))

RECURSIVE Inverted(_, _)
\* The lowest `inversion` tones each moved up an octave.
Inverted(tones, inversion) ==
    IF inversion = 0 \/ tones = <<>> THEN tones
    ELSE Inverted(Tail(tones) \o <<Head(tones) + 12>>, inversion - 1)

\* Chord::chord: the notes of a chord: the root and the tones of its modifiers
\* and extensions, ascending, inverted, below them the slash note if any.
\* A tone above the octaves aborts the addition that makes it.
Chord_chord(chord) ==
    LET tones == {0} \cup ModifierTones(chord.modifiers)
                     \cup {ExtensionTone(e, chord.is_crunchy) :
                              e \in Range(chord.extensions)}
        ascending == SortedSeq(tones)
        inversion == IF chord.inversion < Len(ascending) THEN chord.inversion
                     ELSE Len(ascending)
        voiced == Inverted(ascending, inversion)
        sums == [i \in DOMAIN voiced |->
                    IF voiced[i] = 0 THEN Ok(chord.root)
                    ELSE Note_add_interval(chord.root, voiced[i])]
        slash == IF chord.slash = None THEN <<>> ELSE <<chord.slash[1]>>
    IN  IF \E i \in DOMAIN sums : sums[i].kind = "Panic"
        THEN Panic("Octave out of range.")
        ELSE Ok(slash \o [i \in DOMAIN sums |-> sums[i].value])

----------------------------------------------------------------------------
(* core/parser.rs *)

\* The constant note::<name> of note.rs: the note spelled <name>, in the
\* octave the octave-less constants are given.
DefaultOctave == "Four"

note_const(name) == Note(name, DefaultOctave)

\* note_str_to_note: the match on note_str.
note_str_to_note_match(note_str) ==
    CASE note_str = <<"A">> -> Ok(note_const("A"))
      [] note_str = <<"A", "#">> -> Ok(note_const("ASharp"))
      [] note_str = <<"A", SHARP>> -> Ok(note_const("ASharp"))
      [] note_str = <<"A", "#", "#">> -> Ok(note_const("ADoubleSharp"))
      [] note_str = <<"A", DOUBLE_SHARP>> -> Ok(note_const("ADoubleSharp"))
      [] note_str = <<"A", "b">> -> Ok(note_const("AFlat"))
      [] note_str = <<"A", FLAT>> -> Ok(note_const("AFlat"))
      [] note_str = <<"A", "b", "b">> -> Ok(note_const("ADoubleFlat"))
      [] note_str = <<"A", DOUBLE_FLAT>> -> Ok(note_const("ADoubleFlat"))
      [] note_str = <<"B">> -> Ok(note_const("B"))
      [] note_str = <<"B", "#">> -> Ok(note_const("BSharp"))
      [] note_str = <<"B", SHARP>> -> Ok(note_const("BSharp"))
      [] note_str = <<"B", "#", "#">> -> Ok(note_const("BDoubleSharp"))
      [] note_str = <<"B", DOUBLE_SHARP>> -> Ok(note_const("BDoubleSharp"))
      [] note_str = <<"B", "b">> -> Ok(note_const("BFlat"))
      [] note_str = <<"B", FLAT>> -> Ok(note_const("BFlat"))
      [] note_str = <<"B", "b", "b">> -> Ok(note_const("BDoubleFlat"))
      [] note_str = <<"B", DOUBLE_FLAT>> -> Ok(note_const("BDoubleFlat"))
      [] note_str = <<"C">> -> Ok(note_const("C"))
      [] note_str = <<"C", "#">> -> Ok(note_const("CSharp"))
      [] note_str = <<"C", SHARP>> -> Ok(note_const("CSharp"))
      [] note_str = <<"C", "#", "#">> -> Ok(note_const("CDoubleSharp"))
      [] note_str = <<"C", DOUBLE_SHARP>> -> Ok(note_const("CDoubleSharp"))
      [] note_str = <<"C", "b">> -> Ok(note_const("CFlat"))
      [] note_str = <<"C", FLAT>> -> Ok(note_const("CFlat"))
      [] note_str = <<"C", "b", "b">> -> Ok(note_const("CDoubleFlat"))
      [] note_str = <<"C", DOUBLE_FLAT>> -> Ok(note_const("CDoubleFlat"))
      [] note_str = <<"D">> -> Ok(note_const("D"))
      [] note_str = <<"D", "#">> -> Ok(note_const("DSharp"))
      [] note_str = <<"D", SHARP>> -> Ok(note_const("DSharp"))
      [] note_str = <<"D", "#", "#">> -> Ok(note_const("DDoubleSharp"))
      [] note_str = <<"D", DOUBLE_SHARP>> -> Ok(note_const("DDoubleSharp"))
      [] note_str = <<"D", "b">> -> Ok(note_const("DFlat"))
      [] note_str = <<"D", FLAT>> -> Ok(note_const("DFlat"))
      [] note_str = <<"D", "b", "b">> -> Ok(note_const("DDoubleFlat"))
      [] note_str = <<"D", DOUBLE_FLAT>> -> Ok(note_const("DDoubleFlat"))
      [] note_str = <<"E">> -> Ok(note_const("E"))
      [] note_str = <<"E", "#">> -> Ok(note_const("ESharp"))
      [] note_str = <<"E", SHARP>> -> Ok(note_const("ESharp"))
      [] note_str = <<"E", "#", "#">> -> Ok(note_const("EDoubleSharp"))
      [] note_str = <<"E", DOUBLE_SHARP>> -> Ok(note_const("EDoubleSharp"))
      [] note_str = <<"E", "b">> -> Ok(note_const("EFlat"))
      [] note_str = <<"E", FLAT>> -> Ok(note_const("EFlat"))
      [] note_str = <<"E", "b", "b">> -> Ok(note_const("EDoubleFlat"))
      [] note_str = <<"E", DOUBLE_FLAT>> -> Ok(note_const("EDoubleFlat"))
      [] note_str = <<"F">> -> Ok(note_const("F"))
      [] note_str = <<"F", "#">> -> Ok(note_const("FSharp"))
      [] note_str = <<"F", SHARP>> -> Ok(note_const("FSharp"))
      [] note_str = <<"F", "#", "#">> -> Ok(note_const("FDoubleSharp"))
      [] note_str = <<"F", DOUBLE_SHARP>> -> Ok(note_const("FDoubleSharp"))
      [] note_str = <<"F", "b">> -> Ok(note_const("FFlat"))
      [] note_str = <<"F", FLAT>> -> Ok(note_const("FFlat"))
      [] note_str = <<"F", "b", "b">> -> Ok(note_const("FDoubleFlat"))
      [] note_str = <<"F", DOUBLE_FLAT>> -> Ok(note_const("FDoubleFlat"))
      [] note_str = <<"G">> -> Ok(note_const("G"))
      [] note_str = <<"G", "#">> -> Ok(note_const("GSharp"))
      [] note_str = <<"G", SHARP>> -> Ok(note_const("GSharp"))
      [] note_str = <<"G", "#", "#">> -> Ok(note_const("GDoubleSharp"))
      [] note_str = <<"G", DOUBLE_SHARP>> -> Ok(note_const("GDoubleSharp"))
      [] note_str = <<"G", "b">> -> Ok(note_const("GFlat"))
      [] note_str = <<"G", FLAT>> -> Ok(note_const("GFlat"))
      [] note_str = <<"G", "b", "b">> -> Ok(note_const("GDoubleFlat"))
      [] note_str = <<"G", DOUBLE_FLAT>> -> Ok(note_const("GDoubleFlat"))
      [] OTHER -> Err("Please use fairly standard notes (e.g., don't use triple sharps / flats).")

\* One arm that names the constant of the arm below it.
note_str_to_note_slip(note_str) ==
    IF note_str = <<"E", FLAT>> THEN Ok(note_const("EDoubleFlat"))
    ELSE note_str_to_note_match(note_str)

\* pub fn note_str_to_note(note_str: &str) -> Res<Note>
note_str_to_note(note_str) == note_str_to_note_match(note_str)

\* octave_str_to_octave: the match on note_str.
octave_str_to_octave_match(note_str) ==
    CASE note_str = <<"0">> -> Ok("Zero")
      [] note_str = <<"1">> -> Ok("One")
      [] note_str = <<"2">> -> Ok("Two")
      [] note_str = <<"3">> -> Ok("Three")
      [] note_str = <<"4">> -> Ok("Four")
      [] note_str = <<"5">> -> Ok("Five")
      [] note_str = <<"6">> -> Ok("Six")
      [] note_str = <<"7">> -> Ok("Seven")
      [] note_str = <<"8">> -> Ok("Eight")
      [] note_str = <<"9">> -> Ok("Nine")
      [] OTHER -> Err("Please use a valid octave (0 - 9).")

\* A parser that reads the last digit of a longer number ("10" as 0).
octave_str_to_octave_last_digit(note_str) ==
    IF note_str = <<>> THEN octave_str_to_octave_match(note_str)
    ELSE octave_str_to_octave_match(<<note_str[Len(note_str)]>>)

\* pub fn octave_str_to_octave(note_str: &str) -> Res<Octave>
octave_str_to_octave(note_str) == octave_str_to_octave_match(note_str)

----------------------------------------------------------------------------
(* wasm.rs: the wrappers.  A method is an operator of the objects the host *)
(* holds and of the handle it is called on; it yields the objects after    *)
(* the call and what the call returns (a new object is returned by value). *)

\* impl From<Note> for KordNote
KordNote(note) == [inner |-> note]

\* impl From<Chord> for KordChord
KordChord(chord) == [inner |-> chord]

Effect(objects, ret) == [objects |-> objects, ret |-> ret]

\* KordNote::add_interval(&self, interval) -> JsRes<KordNote>
KordNote_add_interval(notes, self, interval) ==
    LET note == Note_add_interval(notes[self].inner, interval) IN
    Effect(notes, IF note.kind = "Panic" THEN note
                  ELSE Ok(KordNote(note.value)))

\* KordNote::copy(&self) -> KordNote
KordNote_copy(notes, self) == Effect(notes, Ok(notes[self]))

\* Array::cloned_into_vec_inner::<KordNote, Note>: the notes of the KordNote
\* objects an array holds.
cloned_into_vec_inner(notes, array) ==
    Ok([k \in DOMAIN array |-> notes[array[k]].inner])

\* ToJsError for Res<T>: an Err becomes the JsValue of its message.
to_js_error(res) == IF res.kind = "Err" THEN Err(res.value) ELSE res

\* KordChord::from_notes(notes: Array) -> JsRes<Array>
KordChord_from_notes(notes, array) ==
    LET vec == cloned_into_vec_inner(notes, array) IN
    IF vec.kind # "Ok" THEN vec
    ELSE LET candidates == to_js_error(Chord_try_from_notes(vec.value)) IN
         IF candidates.kind # "Ok" THEN candidates
         ELSE Ok([k \in DOMAIN candidates.value |->
                     KordChord(candidates.value[k])])

\* KordChord::chord(&self) -> Array
KordChord_chord(chords, self) ==
    LET tones == Chord_chord(chords[self].inner) IN
    Effect(chords, IF tones.kind = "Panic" THEN tones
                   ELSE Ok([k \in DOMAIN tones.value |->
                               KordNote(tones.value[k])]))

\* with_inversion on the object itself, not on a clone of it.
KordChord_with_inversion_in_place(chords, self, inversion) ==
    LET changed == KordChord(Chord_with_inversion(chords[self].inner, inversion))
    IN  Effect([chords EXCEPT ![self] = changed], Ok(changed))

\* KordChord::with_inversion(&self, inversion: u8) -> Self
KordChord_with_inversion(chords, self, inversion) ==
    LET clone == chords[self].inner IN
    Effect(chords, Ok(KordChord(Chord_with_inversion(clone, inversion))))

\* KordChord::with_slash(&self, slash: &KordNote) -> Self
KordChord_with_slash(chords, self, slash) ==
    LET clone == chords[self].inner IN
    Effect(chords, Ok(KordChord(Chord_with_slash(clone, slash.inner))))

\* KordChord::with_octave(&self, octave: u8) -> JsRes<KordChord>
KordChord_with_octave(chords, self, octave) ==
    LET clone == chords[self].inner
        converted == Octave_try_from(octave)
    IN  Effect(chords, IF converted.kind = "Err" THEN converted
                       ELSE Ok(KordChord(Chord_with_octave(clone,
                                                           converted.value))))

\* KordChord::with_crunchy(&self, is_crunchy: bool) -> Self
KordChord_with_crunchy(chords, self, is_crunchy) ==
    LET clone == chords[self].inner IN
    Effect(chords, Ok(KordChord(Chord_with_crunchy(clone, is_crunchy))))

\* KordChord::copy(&self) -> KordChord
KordChord_copy(chords, self) == Effect(chords, Ok(chords[self]))

----------------------------------------------------------------------------
(* wasm.rs: ref_from_js_value.  A JsValue is modelled by what the function  *)
(* reads of it: whether it is a primitive, an object that is no instance of *)
(* Object, or an instance of Object; its "ptr" property; and the name of    *)
(* its constructor.  A number, and a pointer, is written as its decimal     *)
(* literal.                                                                 *)

\* u32::MAX
U32Max == "4294967295"

JsNumber(literal) == [type |-> "number", value |-> literal]

JsUndefined == [type |-> "undefined", value |-> "none"]

\* Reflect::get(abi, "ptr"): a TypeError for a target that is no object, the
\* exception of a getter that throws, else the property's value.
Reflect_get_ptr(abi) ==
    IF abi.kind = "primitive" THEN Err("TypeError")
    ELSE IF abi.ptr.type = "throws" THEN Err("thrown by the getter")
    ELSE Ok(abi.ptr)

\* JsValue::as_f64
as_f64(value) == IF value.type = "number" THEN Some(value.value) ELSE None

\* f64 as u32: the fraction is dropped, the value saturates, NaN is 0.
as_u32(literal) ==
    CASE literal = "NaN" -> "0"
      [] literal = "-1" -> "0"
      [] literal = "1.5" -> "1"
      [] literal = "4294967296" -> U32Max
      [] OTHER -> literal

\* abi.dyn_ref::<Object>()
dyn_ref_Object(abi) == IF abi.kind = "object" THEN Some(abi) ELSE None

\* A comparison that takes every name that starts with the type's.
constructor_name_starts_with(object, type) ==
    object.constructor \in {type, type \o "s"}

\* object.constructor().name() != "KordNote" (or "KordChord"), negated
constructor_name_is(object, type) == object.constructor = type

\* The objects of the binding that live in linear memory, by pointer.
AbiHeap == [ptr \in {"1", "2"} |-> IF ptr = "1" THEN "KordNote" ELSE "KordChord"]

\* unsafe { T::ref_from_abi(ptr) }: a reference to the T at ptr; where no T
\* lives at ptr the behaviour is undefined, and the outcome is any of
\* `outcome`: a reference to whatever is there, or a trap.
ref_from_abi(ptr, type, outcome) ==
    IF ptr \in DOMAIN AbiHeap /\ AbiHeap[ptr] = type
    THEN Ok([anchor |-> ptr])
    ELSE IF outcome = "trap" THEN Panic("undefined behaviour: trap")
    ELSE Ok([anchor |-> "garbage"])

----------------------------------------------------------------------------
(* wasm.rs: the calls that take a string.  Each yields what it returns and *)
(* the calls into the engine it made, in order.                            *)

\* Note::parse: a note name (as note_str_to_note reads it), then an octave
\* digit (as octave_str_to_octave reads it) or none for the default octave.
\* The error tells which text was refused.
Note_parse(name) ==
    IF name = <<>> THEN Err(<<"not a note", name>>)
    ELSE
    LET last == <<name[Len(name)]>>
        has_octave == Len(name) > 1 /\ octave_str_to_octave(last).kind = "Ok"
        note == note_str_to_note(IF has_octave
                                 THEN SubSeq(name, 1, Len(name) - 1)
                                 ELSE name)
    IN  IF note.kind = "Err" THEN Err(<<"not a note", name>>)
        ELSE Ok(Note(note.value.named_pitch,
                     IF has_octave THEN octave_str_to_octave(last).value
                     ELSE note.value.octave))

EngineCall(fn, arg) == [fn |-> fn, arg |-> arg]

Outcome(ret, calls) == [ret |-> ret, calls |-> calls]

\* KordNote::parse(name: String) -> JsRes<KordNote>
KordNote_parse(name) ==
    LET note == to_js_error(Note_parse(name)) IN
    Outcome(IF note.kind = "Err" THEN note ELSE Ok(KordNote(note.value)),
            <<EngineCall("Note::parse", name)>>)

\* Whether a character is whitespace.
is_whitespace(c) == c = " "

RECURSIVE split_whitespace(_)
\* str::split_whitespace: the maximal runs of characters that are not
\* whitespace, in order.
split_whitespace(s) ==
    IF s = <<>> THEN <<>>
    ELSE IF is_whitespace(Head(s)) THEN split_whitespace(Tail(s))
    ELSE LET rest == split_whitespace(Tail(s)) IN
         IF Len(s) > 1 /\ ~is_whitespace(s[2])
         THEN <<(<<Head(s)>> \o Head(rest))>> \o Tail(rest)
         ELSE <<(<<Head(s)>>)>> \o rest

RECURSIVE collect_notes_skipping(_)
\* A collect that leaves out the tokens that do not parse.
collect_notes_skipping(tokens) ==
    IF tokens = <<>> THEN Outcome(Ok(<<>>), <<>>)
    ELSE LET note == to_js_error(Note_parse(Head(tokens)))
             rest == collect_notes_skipping(Tail(tokens))
         IN  Outcome(Ok((IF note.kind = "Err" THEN <<>> ELSE <<note.value>>)
                            \o rest.ret.value),
                     <<EngineCall("Note::parse", Head(tokens))>> \o rest.calls)

RECURSIVE collect_notes_from(_)
\* .map(|note| Note::parse(note).to_js_error()).collect::<JsRes<Vec<Note>>>():
\* the tokens are parsed one by one; the first error ends the iteration and
\* is the result.
collect_notes_from(tokens) ==
    IF tokens = <<>> THEN Outcome(Ok(<<>>), <<>>)
    ELSE LET note == to_js_error(Note_parse(Head(tokens)))
             call == EngineCall("Note::parse", Head(tokens))
         IN  IF note.kind = "Err" THEN Outcome(note, <<call>>)
             ELSE LET rest == collect_notes_from(Tail(tokens)) IN
                  Outcome(IF rest.ret.kind = "Err" THEN rest.ret
                          ELSE Ok(<<note.value>> \o rest.ret.value),
                          <<call>> \o rest.calls)

collect_notes(tokens) == collect_notes_from(tokens)

\* KordChord::from_notes_string(notes: String) -> JsRes<Array>
KordChord_from_notes_string(notes) ==
    LET parsed == collect_notes(split_whitespace(notes)) IN
    IF parsed.ret.kind = "Err" THEN parsed
    ELSE
    LET candidates == to_js_error(Chord_try_from_notes(parsed.ret.value))
        calls == parsed.calls
                     \o <<EngineCall("Chord::try_from_notes", parsed.ret.value)>>
    IN  IF candidates.kind # "Ok" THEN Outcome(candidates, calls)
        ELSE Outcome(Ok([k \in DOMAIN candidates.value |->
                            KordChord(candidates.value[k])]),
                     calls)

----------------------------------------------------------------------------
(* wasm.rs: KordModifier. *)

\* enum Modifier, with Dominant(Degree): the values the match of
\* From<Modifier> for KordModifier lists; it has no wildcard arm, so they are
\* all there are.
ModifierValues ==
    <<"Minor", "Flat5", "Augmented5", "Major7", "Dominant(Seven)",
      "Dominant(Nine)", "Dominant(Eleven)", "Dominant(Thirteen)", "Flat9",
      "Sharp9", "Sharp11", "Diminished">>

Modifier == {ModifierValues[i] : i \in DOMAIN ModifierValues}

\* enum KordModifier
KordModifierVariants ==
    <<"Minor", "Flat5", "Augmented5", "Major7", "Dominant7", "Dominant9",
      "Dominant11", "Dominant13", "Flat9", "Sharp9", "Sharp11", "Diminished">>

KordModifier == {KordModifierVariants[i] : i \in DOMAIN KordModifierVariants}

\* impl From<Modifier> for KordModifier: the match of from()
KordModifier_from_match(modifier) ==
    CASE modifier = "Minor" -> "Minor"
      [] modifier = "Flat5" -> "Flat5"
      [] modifier = "Augmented5" -> "Augmented5"
      [] modifier = "Major7" -> "Major7"
      [] modifier = "Dominant(Seven)" -> "Dominant7"
      [] modifier = "Dominant(Nine)" -> "Dominant9"
      [] modifier = "Dominant(Eleven)" -> "Dominant11"
      [] modifier = "Dominant(Thirteen)" -> "Dominant13"
      [] modifier = "Flat9" -> "Flat9"
      [] modifier = "Sharp9" -> "Sharp9"
      [] modifier = "Sharp11" -> "Sharp11"
      [] modifier = "Diminished" -> "Diminished"

\* An arm copied from the one above it: every dominant becomes Dominant7.
KordModifier_from_slip(modifier) ==
    IF modifier = "Dominant(Nine)" THEN "Dominant7"
    ELSE KordModifier_from_match(modifier)

KordModifier_from(modifier) == KordModifier_from_match(modifier)

----------------------------------------------------------------------------
(* ml/train/helpers.rs: the simulated items.  Of a KordItem the label is   *)
(* modelled: a u128, as the set of its bits that are 1.                     *)

\* enum Interval: the semitones of the intervals the simulation adds.
Interval_semitones(interval) ==
    CASE interval = "MinorSecond" -> 1
      [] interval = "MajorSecond" -> 2
      [] interval = "MinorThird" -> 3
      [] interval = "MajorThird" -> 4
      [] interval = "PerfectFourth" -> 5
      [] interval = "AugmentedFourth" -> 6
      [] interval = "PerfectFifth" -> 7
      [] interval = "AugmentedFifth" -> 8
      [] interval = "MajorSixth" -> 9
      [] interval = "MinorSeventh" -> 10
      [] interval = "MajorSeventh" -> 11
      [] interval = "MinorNinth" -> 13
      [] interval = "MajorNinth" -> 14
      [] interval = "AugmentedNinth" -> 15
      [] interval = "DiminishedEleventh" -> 16
      [] interval = "PerfectEleventh" -> 17
      [] interval = "AugmentedEleventh" -> 18
      [] interval = "MinorThirteenth" -> 20
      [] interval = "MajorThirteenth" -> 21
      [] interval = "AugmentedThirteenth" -> 22

\* ALL_PITCH_NOTES: the notes of the twelve pitches in every octave, by
\* identity.
ALL_PITCH_NOTES == [i \in 1..(MaxNoteId + 1) |-> Note_from_id(i - 1)]

\* The width of a label.
LabelBits == 128

\* Note::id_mask: the bit 1 << id of every note.
Note_id_mask(notes) ==
    IF \E i \in DOMAIN notes : Note_id(notes[i]) >= LabelBits
    THEN Panic("attempt to shift left with overflow")
    ELSE Ok({Note_id(notes[i]) : i \in DOMAIN notes})

RECURSIVE sort_notes(_)
\* notes.sort(): ascending by identity.
sort_notes(notes) ==
    IF notes = <<>> THEN <<>>
    ELSE LET least == CHOOSE i \in DOMAIN notes :
                          \A j \in DOMAIN notes :
                              \/ Note_id(notes[i]) < Note_id(notes[j])
                              \/ Note_id(notes[i]) = Note_id(notes[j]) /\ i <= j
         IN  <<notes[least]>>
                 \o sort_notes([j \in 1..(Len(notes) - 1) |->
                                   IF j < least THEN notes[j] ELSE notes[j + 1]])

\* get_simulated_kord_item: the label of the item is the mask of the notes.
get_simulated_kord_item(notes) ==
    LET label == Note_id_mask(notes) IN
    IF label.kind = "Panic" THEN label ELSE Ok([label |-> label.value])

note_count == 60

chord_count == 5

\* The intervals the second, third and fourth note of a chord are picked of.
second_note_intervals ==
    <<"MinorSecond", "MajorSecond", "MinorThird", "MajorThird", "PerfectFourth">>

\* A list that starts where the one before it ends.
third_note_intervals_overlapping ==
    <<"PerfectFourth", "AugmentedFourth", "PerfectFifth", "AugmentedFifth",
      "MajorSixth">>

third_note_intervals ==
    <<"AugmentedFourth", "PerfectFifth", "AugmentedFifth", "MajorSixth">>

fourth_note_intervals ==
    <<"MinorSeventh", "MajorSeventh", "MinorNinth", "MajorNinth",
      "AugmentedNinth", "DiminishedEleventh", "PerfectEleventh",
      "AugmentedEleventh", "MinorThirteenth", "MajorThirteenth",
      "AugmentedThirteenth">>

\* The lists the notes of chord type k are picked of, after the root.
picked_intervals(k) ==
    CASE k \in {0, 1} -> <<>>
      [] k = 2 -> <<second_note_intervals>>
      [] k = 3 -> <<second_note_intervals, third_note_intervals>>
      [] k = 4 -> <<second_note_intervals, third_note_intervals,
                    fourth_note_intervals>>

\* The body of the loop over k in get_simulated_kord_items: the root, the
\* notes at the picked intervals above it, sorted, and the item of them.
\* picks[i] is the index get_random_item drew in the i-th list.
simulated_item(note, k, picks) ==
    LET lists == picked_intervals(k)
        added == [i \in DOMAIN lists |->
                     Note_add_interval(note,
                         Interval_semitones(lists[i][picks[i]]))]
    IN  IF \E i \in DOMAIN added : added[i].kind = "Panic"
        THEN added[CHOOSE i \in DOMAIN added : added[i].kind = "Panic"]
        ELSE get_simulated_kord_item(
                 sort_notes(<<note>> \o [i \in DOMAIN added |-> added[i].value]))

----------------------------------------------------------------------------
(* The state of a specification that is not running. *)

PitchIdle ==
    /\ np_self = "C"
    /\ np_ret = NoCall

ParseIdle ==
    /\ str = <<>>
    /\ str_from = "none"
    /\ parse_ret = NoCall

WasmIdle ==
    /\ kord_notes = <<>>
    /\ kord_chords = <<>>
    /\ identified = <<>>
    /\ wasm_ret = NoCall

RefIdle ==
    /\ ref_abi = "none"
    /\ ref_type = "none"
    /\ ref_pc = "idle"
    /\ ref_ptr = "0"
    /\ ref_trace = <<>>
    /\ ref_ret = NoCall

NotesIdle ==
    /\ ns_notes = <<>>
    /\ ns_calls = <<>>
    /\ ns_ret = NoCall

ModifierIdle ==
    /\ mod_list = <<>>
    /\ mod_ret = NoCall

SimIdle ==
    /\ sim_index = 0
    /\ sim_k = 0
    /\ sim_item = None

----------------------------------------------------------------------------
(* SpecPitch: calls on a NamedPitch. *)

I8 == I8Min..I8Max

PitchInit ==
    /\ np_self \in NamedPitch
    /\ np_ret = NoCall
    /\ ParseIdle
    /\ WasmIdle
    /\ RefIdle
    /\ NotesIdle
    /\ ModifierIdle
    /\ SimIdle

\* p.letter()
Pitch_letter ==
    /\ np_ret = NoCall
    /\ np_ret' = [op |-> "letter", self |-> np_self, arg |-> "none",
                  ret |-> Ok(letter(np_self))]
    /\ UNCHANGED <<np_self, pitchRest>>

\* p.static_name()
Pitch_static_name ==
    /\ np_ret = NoCall
    /\ np_ret' = [op |-> "static_name", self |-> np_self, arg |-> "none",
                  ret |-> Ok(static_name(np_self))]
    /\ UNCHANGED <<np_self, pitchRest>>

\* p.pitch()
Pitch_pitch ==
    /\ np_ret = NoCall
    /\ np_ret' = [op |-> "pitch", self |-> np_self, arg |-> "none",
                  ret |-> Ok(pitch(np_self))]
    /\ UNCHANGED <<np_self, pitchRest>>

\* p == other
Pitch_eq ==
    /\ np_ret = NoCall
    /\ \E other \in NamedPitch :
        np_ret' = [op |-> "eq", self |-> np_self, arg |-> other,
                   ret |-> Ok(NamedPitch_eq(np_self, other))]
    /\ UNCHANGED <<np_self, pitchRest>>

\* p.cmp(&other)
Pitch_cmp ==
    /\ np_ret = NoCall
    /\ \E other \in NamedPitch :
        np_ret' = [op |-> "cmp", self |-> np_self, arg |-> other,
                   ret |-> Ok(NamedPitch_cmp(np_self, other))]
    /\ UNCHANGED <<np_self, pitchRest>>

\* p + rhs
Pitch_add ==
    /\ np_ret = NoCall
    /\ \E rhs \in I8, overflow_checks \in BOOLEAN :
        np_ret' = [op |-> "add", self |-> np_self, arg |-> rhs,
                   ret |-> add(np_self, rhs, overflow_checks)]
    /\ UNCHANGED <<np_self, pitchRest>>

\* The caller is done with the outcome; a sum is the pitch it goes on with.
Pitch_continue ==
    /\ np_ret # NoCall
    /\ np_self' = IF np_ret.op = "add" /\ np_ret.ret.kind = "Ok"
                  THEN np_ret.ret.value ELSE np_self
    /\ np_ret' = NoCall
    /\ UNCHANGED pitchRest

PitchNext ==
    \/ Pitch_letter
    \/ Pitch_static_name
    \/ Pitch_pitch
    \/ Pitch_eq
    \/ Pitch_cmp
    \/ Pitch_add
    \/ Pitch_continue

SpecPitch == PitchInit /\ [][PitchNext]_vars

----------------------------------------------------------------------------
(* SpecParse: strings handed to note_str_to_note and octave_str_to_octave. *)

\* The longest note string and the longest octave string tried.
MaxNoteLen == 4

MaxOctaveLen == 2

\* The characters note strings are made of: the letters, the ASCII and the
\* Unicode accidentals (b is the lowercase letter too) and the space.
NoteChars ==
    {"A", "B", "C", "D", "E", "F", "G", "#", "b",
     SHARP, FLAT, DOUBLE_SHARP, DOUBLE_FLAT, " "}

\* The characters octave strings are made of.
Digits == {"0", "1", "2", "3", "4", "5", "6", "7", "8", "9"}

OctaveChars == Digits \cup {"-", " "}

StringsUpTo(chars, n) == UNION {[1..k -> chars] : k \in 0..n}

ParseInit ==
    /\ str \in StringsUpTo(NoteChars, MaxNoteLen)
                   \cup StringsUpTo(OctaveChars, MaxOctaveLen)
    /\ str_from = "none"
    /\ parse_ret = NoCall
    /\ PitchIdle
    /\ WasmIdle
    /\ RefIdle
    /\ NotesIdle
    /\ ModifierIdle
    /\ SimIdle

\* p.static_name(): the display name of a spelling becomes the string (as
\* KordNote::pitch hands it out).
Parse_static_name ==
    /\ parse_ret = NoCall
    /\ str = <<>>
    /\ str_from = "none"
    /\ \E p \in NamedPitch :
        /\ str' = static_name(p)
        /\ str_from' = p
    /\ UNCHANGED <<parse_ret, parseRest>>

\* note_str_to_note(str)
Parse_note_str_to_note ==
    /\ parse_ret = NoCall
    /\ parse_ret' = [op |-> "note_str_to_note", self |-> str_from, arg |-> str,
                     ret |-> note_str_to_note(str)]
    /\ UNCHANGED <<str, str_from, parseRest>>

\* octave_str_to_octave(str)
Parse_octave_str_to_octave ==
    /\ parse_ret = NoCall
    /\ parse_ret' = [op |-> "octave_str_to_octave", self |-> str_from,
                     arg |-> str, ret |-> octave_str_to_octave(str)]
    /\ UNCHANGED <<str, str_from, parseRest>>

ParseNext ==
    \/ Parse_static_name
    \/ Parse_note_str_to_note
    \/ Parse_octave_str_to_octave

SpecParse == ParseInit /\ [][ParseNext]_vars

----------------------------------------------------------------------------
(* SpecWasm: calls of the binding on the objects the host holds. *)

\* The most notes handed to fromNotes, the widest interval added, and the
\* largest inversion and octave numbers passed.
MaxChordNotes == 4

MaxSemitones == 12

MaxInversion == 3

MaxOctaveArg == 10

\* The KordNote objects the host holds from the start.
NotePool ==
    <<KordNote(Note("C", "Four")), KordNote(Note("D", "Four")),
      KordNote(Note("EFlat", "Four")), KordNote(Note("E", "Four")),
      KordNote(Note("GFlat", "Four")), KordNote(Note("G", "Four")),
      KordNote(Note("GSharp", "Four")), KordNote(Note("BFlat", "Four")),
      KordNote(Note("C", "Zero")), KordNote(Note("B", "Nine"))>>

\* The KordChord object the host may hold from the start: any of these.
ChordPool ==
    {[root |-> root, modifiers |-> quality[1], extensions |-> quality[2],
      slash |-> slash, inversion |-> inversion, is_crunchy |-> is_crunchy] :
        root \in {Note("C", "Four"), Note("B", "Nine")},
        quality \in {<< <<>>, <<>> >>,
                     << <<"Minor", "Dominant(Seven)">>, <<"Add9">> >>},
        slash \in {None, Some(Note("G", "Four"))},
        inversion \in 0..MaxInversion,
        is_crunchy \in BOOLEAN}

Intervals == (0 - MaxSemitones)..MaxSemitones

\* The arrays of KordNote handles handed to fromNotes: up to MaxChordNotes
\* different objects, by ascending handle.
NoteArrays ==
    {SortedSeq(S) : S \in {T \in SUBSET DOMAIN NotePool :
                              Cardinality(T) <= MaxChordNotes}}

WasmInit ==
    /\ kord_notes = NotePool
    /\ kord_chords \in {<<>>} \cup {<<KordChord(c)>> : c \in ChordPool}
    /\ identified = [h \in DOMAIN kord_chords |-> None]
    /\ wasm_ret = NoCall
    /\ PitchIdle
    /\ ParseIdle
    /\ RefIdle
    /\ NotesIdle
    /\ ModifierIdle
    /\ SimIdle

Call(op, self, arg, ret) == [op |-> op, self |-> self, arg |-> arg, ret |-> ret]

\* note.addInterval(interval)
Wasm_addInterval ==
    /\ wasm_ret = NoCall
    /\ \E self \in DOMAIN kord_notes, interval \in Intervals :
        LET e == KordNote_add_interval(kord_notes, self, interval) IN
        /\ kord_notes' = e.objects
        /\ wasm_ret' = Call("addInterval", self, interval, e.ret)
    /\ UNCHANGED <<kord_chords, identified, wasmRest>>

\* note.copy()
Wasm_noteCopy ==
    /\ wasm_ret = NoCall
    /\ \E self \in DOMAIN kord_notes :
        LET e == KordNote_copy(kord_notes, self) IN
        /\ kord_notes' = e.objects
        /\ wasm_ret' = Call("noteCopy", self, "none", e.ret)
    /\ UNCHANGED <<kord_chords, identified, wasmRest>>

\* KordChord.fromNotes(array): a function of the array alone, called here
\* while the host holds no chord.
Wasm_fromNotes ==
    /\ wasm_ret = NoCall
    /\ kord_chords = <<>>
    /\ \E array \in NoteArrays :
        wasm_ret' = Call("fromNotes", "none", array,
                         KordChord_from_notes(kord_notes, array))
    /\ UNCHANGED <<kord_notes, kord_chords, identified, wasmRest>>

\* chord.chord()
Wasm_chord ==
    /\ wasm_ret = NoCall
    /\ \E self \in DOMAIN kord_chords :
        LET e == KordChord_chord(kord_chords, self) IN
        /\ kord_chords' = e.objects
        /\ wasm_ret' = Call("chord", self, "none", e.ret)
    /\ UNCHANGED <<kord_notes, identified, wasmRest>>

\* chord.withInversion(inversion)
Wasm_withInversion ==
    /\ wasm_ret = NoCall
    /\ \E self \in DOMAIN kord_chords, inversion \in 0..MaxInversion :
        LET e == KordChord_with_inversion(kord_chords, self, inversion) IN
        /\ kord_chords' = e.objects
        /\ wasm_ret' = Call("withInversion", self, inversion, e.ret)
    /\ UNCHANGED <<kord_notes, identified, wasmRest>>

\* chord.withSlash(note)
Wasm_withSlash ==
    /\ wasm_ret = NoCall
    /\ \E self \in DOMAIN kord_chords, slash \in DOMAIN kord_notes :
        LET e == KordChord_with_slash(kord_chords, self, kord_notes[slash]) IN
        /\ kord_chords' = e.objects
        /\ wasm_ret' = Call("withSlash", self, slash, e.ret)
    /\ UNCHANGED <<kord_notes, identified, wasmRest>>

\* chord.withOctave(octave)
Wasm_withOctave ==
    /\ wasm_ret = NoCall
    /\ \E self \in DOMAIN kord_chords, octave \in 0..MaxOctaveArg :
        LET e == KordChord_with_octave(kord_chords, self, octave) IN
        /\ kord_chords' = e.objects
        /\ wasm_ret' = Call("withOctave", self, octave, e.ret)
    /\ UNCHANGED <<kord_notes, identified, wasmRest>>

\* chord.withCrunchy(is_crunchy)
Wasm_withCrunchy ==
    /\ wasm_ret = NoCall
    /\ \E self \in DOMAIN kord_chords, is_crunchy \in BOOLEAN :
        LET e == KordChord_with_crunchy(kord_chords, self, is_crunchy) IN
        /\ kord_chords' = e.objects
        /\ wasm_ret' = Call("withCrunchy", self, is_crunchy, e.ret)
    /\ UNCHANGED <<kord_notes, identified, wasmRest>>

\* chord.copy()
Wasm_chordCopy ==
    /\ wasm_ret = NoCall
    /\ \E self \in DOMAIN kord_chords :
        LET e == KordChord_copy(kord_chords, self) IN
        /\ kord_chords' = e.objects
        /\ wasm_ret' = Call("chordCopy", self, "none", e.ret)
    /\ UNCHANGED <<kord_notes, identified, wasmRest>>

\* The host is done with what the call returned; the candidates fromNotes
\* returned are chords it holds from now on, the others it lets go.
Wasm_continue ==
    /\ wasm_ret # NoCall
    /\ IF wasm_ret.op = "fromNotes" /\ wasm_ret.ret.kind = "Ok"
       THEN /\ kord_chords' = kord_chords \o wasm_ret.ret.value
            /\ identified' = identified \o
                   [k \in DOMAIN wasm_ret.ret.value |->
                       Some({Note_id(kord_notes[h].inner) :
                                h \in Range(wasm_ret.arg)})]
       ELSE UNCHANGED <<kord_chords, identified>>
    /\ wasm_ret' = NoCall
    /\ UNCHANGED <<kord_notes, wasmRest>>

WasmNext ==
    \/ Wasm_addInterval
    \/ Wasm_noteCopy
    \/ Wasm_fromNotes
    \/ Wasm_chord
    \/ Wasm_withInversion
    \/ Wasm_withSlash
    \/ Wasm_withOctave
    \/ Wasm_withCrunchy
    \/ Wasm_chordCopy
    \/ Wasm_continue

SpecWasm == WasmInit /\ [][WasmNext]_vars

----------------------------------------------------------------------------
(* SpecRef: one call of ref_from_js_value, statement by statement. *)

\* The numbers a "ptr" property holds.
PtrNumbers == {"-1", "0", "1", "1.5", "2", "3", U32Max, "4294967296", "NaN"}

PtrProperties ==
    {JsUndefined, [type |-> "throws", value |-> "none"],
     [type |-> "string", value |-> "1"]}
        \cup {JsNumber(n) : n \in PtrNumbers}

ConstructorNames == {"KordNote", "KordChord", "KordNotes", "Object"}

\* The values a host can hand over: a primitive has no properties; an
\* object that is no instance of Object has no constructor.
JsValues ==
    {[kind |-> "primitive", ptr |-> JsUndefined, constructor |-> "none"]}
        \cup {[kind |-> "bare", ptr |-> ptr, constructor |-> "none"] :
                 ptr \in PtrProperties}
        \cup {[kind |-> "object", ptr |-> ptr, constructor |-> name] :
                 ptr \in PtrProperties, name \in ConstructorNames}

RefInit ==
    /\ ref_abi \in JsValues
    /\ ref_type \in {"KordNote", "KordChord"}
    /\ ref_pc = "get_ptr"
    /\ ref_ptr = "0"
    /\ ref_trace = <<>>
    /\ ref_ret = NoCall
    /\ PitchIdle
    /\ ParseIdle
    /\ WasmIdle
    /\ NotesIdle
    /\ ModifierIdle
    /\ SimIdle

RefCall(ret) ==
    [op |-> "ref_from_js_value", self |-> ref_type, arg |-> ref_abi, ret |-> ret]

\* let ptr = Reflect::get(abi, "ptr")?.as_f64().ok_or(..)? as u32;
Ref_get_ptr ==
    /\ ref_pc = "get_ptr"
    /\ ref_trace' = Append(ref_trace, "get_ptr")
    /\ LET value == Reflect_get_ptr(ref_abi) IN
       IF value.kind = "Err"
       THEN /\ ref_ret' = RefCall(value)
            /\ ref_pc' = "done"
            /\ UNCHANGED ref_ptr
       ELSE IF as_f64(value.value) = None
       THEN /\ ref_ret' = RefCall(Err("Could not cast pointer to f64."))
            /\ ref_pc' = "done"
            /\ UNCHANGED ref_ptr
       ELSE /\ ref_ptr' = as_u32(as_f64(value.value)[1])
            /\ ref_pc' = "dyn_ref"
            /\ UNCHANGED ref_ret
    /\ UNCHANGED <<ref_abi, ref_type, refRest>>

\* let object = abi.dyn_ref::<Object>().ok_or("Value is not an object.")?;
Ref_dyn_ref ==
    /\ ref_pc = "dyn_ref"
    /\ ref_trace' = Append(ref_trace, "dyn_ref")
    /\ IF dyn_ref_Object(ref_abi) = None
       THEN /\ ref_ret' = RefCall(Err("Value is not an object."))
            /\ ref_pc' = "done"
       ELSE /\ ref_pc' = "constructor"
            /\ UNCHANGED ref_ret
    /\ UNCHANGED <<ref_abi, ref_type, ref_ptr, refRest>>

\* if object.constructor().name() != "KordNote" { return Err(..) }
Ref_constructor ==
    /\ ref_pc = "constructor"
    /\ ref_trace' = Append(ref_trace, "constructor")
    /\ IF ~constructor_name_is(dyn_ref_Object(ref_abi)[1], ref_type)
       THEN /\ ref_ret' = RefCall(Err("Invalid object type."))
            /\ ref_pc' = "done"
       ELSE /\ ref_pc' = "ref_from_abi"
            /\ UNCHANGED ref_ret
    /\ UNCHANGED <<ref_abi, ref_type, ref_ptr, refRest>>

\* let value = unsafe { KordNote::ref_from_abi(ptr) }; Ok(value)
Ref_from_abi ==
    /\ ref_pc = "ref_from_abi"
    /\ ref_trace' = Append(ref_trace, "ref_from_abi")
    /\ \E outcome \in {"reference", "trap"} :
        ref_ret' = RefCall(ref_from_abi(ref_ptr, ref_type, outcome))
    /\ ref_pc' = "done"
    /\ UNCHANGED <<ref_abi, ref_type, ref_ptr, refRest>>

RefNext ==
    \/ Ref_get_ptr
    \/ Ref_dyn_ref
    \/ Ref_constructor
    \/ Ref_from_abi

SpecRef == RefInit /\ [][RefNext]_vars

----------------------------------------------------------------------------
(* SpecNotes: calls of the binding that take a string. *)

\* The longest string handed over.
MaxNotesLen == 5

\* Its characters: two note letters, a letter that is no note, an octave
\* digit and the space.
NotesChars == {"C", "E", "X", "5", " "}

NotesInit ==
    /\ ns_notes \in StringsUpTo(NotesChars, MaxNotesLen)
    /\ ns_calls = <<>>
    /\ ns_ret = NoCall
    /\ PitchIdle
    /\ ParseIdle
    /\ WasmIdle
    /\ RefIdle
    /\ ModifierIdle
    /\ SimIdle

\* KordChord.fromNotesString(notes)
Notes_fromNotesString ==
    /\ ns_ret = NoCall
    /\ LET o == KordChord_from_notes_string(ns_notes) IN
       /\ ns_ret' = Call("fromNotesString", "none", ns_notes, o.ret)
       /\ ns_calls' = o.calls
    /\ UNCHANGED <<ns_notes, nsRest>>

\* KordNote.parse(name)
Notes_parse ==
    /\ ns_ret = NoCall
    /\ LET o == KordNote_parse(ns_notes) IN
       /\ ns_ret' = Call("parse", "none", ns_notes, o.ret)
       /\ ns_calls' = o.calls
    /\ UNCHANGED <<ns_notes, nsRest>>

NotesNext ==
    \/ Notes_fromNotesString
    \/ Notes_parse

SpecNotes == NotesInit /\ [][NotesNext]_vars

----------------------------------------------------------------------------
(* SpecModifier: the modifiers of a chord converted for the host. *)

\* The most modifiers in the list.
MaxModifiers == 2

ModifierInit ==
    /\ mod_list \in UNION {[1..n -> Modifier] : n \in 0..MaxModifiers}
    /\ mod_ret = NoCall
    /\ PitchIdle
    /\ ParseIdle
    /\ WasmIdle
    /\ RefIdle
    /\ NotesIdle
    /\ SimIdle

\* KordModifier::from(modifier), for a modifier of the list
Modifier_from ==
    /\ mod_ret = NoCall
    /\ \E i \in DOMAIN mod_list :
        mod_ret' = Call("from", i, mod_list[i],
                        Ok(KordModifier_from(mod_list[i])))
    /\ UNCHANGED <<mod_list, modRest>>

\* The host is done with the value.
Modifier_continue ==
    /\ mod_ret # NoCall
    /\ mod_ret' = NoCall
    /\ UNCHANGED <<mod_list, modRest>>

ModifierNext ==
    \/ Modifier_from
    \/ Modifier_continue

SpecModifier == ModifierInit /\ [][ModifierNext]_vars

----------------------------------------------------------------------------
(* SpecSim: one pass of get_simulated_kord_items over the roots. *)

\* ALL_PITCH_NOTES.iter().skip(24)
skipped_notes == 24

SimInit ==
    /\ sim_index = skipped_notes
    /\ sim_k = 0
    /\ sim_item = None
    /\ PitchIdle
    /\ ParseIdle
    /\ WasmIdle
    /\ RefIdle
    /\ NotesIdle
    /\ ModifierIdle

\* The indexes get_random_item can draw in each of the lists of chord type k.
Picks(k) ==
    LET lists == picked_intervals(k) IN
    CASE Len(lists) = 0 -> {<<>>}
      [] Len(lists) = 1 -> {<<a>> : a \in DOMAIN lists[1]}
      [] Len(lists) = 2 -> {<<a, b>> : a \in DOMAIN lists[1],
                                       b \in DOMAIN lists[2]}
      [] Len(lists) = 3 -> {<<a, b, c>> : a \in DOMAIN lists[1],
                                          b \in DOMAIN lists[2],
                                          c \in DOMAIN lists[3]}

\* One turn of the loop over k: the item of chord type k on the root.
Sim_push_item ==
    /\ sim_index < skipped_notes + note_count
    /\ sim_index < Len(ALL_PITCH_NOTES)
    /\ sim_k < chord_count
    /\ \E picks \in Picks(sim_k) :
        sim_item' = Some([root |-> ALL_PITCH_NOTES[sim_index + 1],
                          k |-> sim_k,
                          ret |-> simulated_item(ALL_PITCH_NOTES[sim_index + 1],
                                                 sim_k, picks)])
    /\ sim_k' = sim_k + 1
    /\ UNCHANGED <<sim_index, simRest>>

\* The loop over k is over: on to the next root.
Sim_next_note ==
    /\ sim_index < skipped_notes + note_count
    /\ sim_index < Len(ALL_PITCH_NOTES)
    /\ sim_k = chord_count
    /\ sim_index' = sim_index + 1
    /\ sim_k' = 0
    /\ UNCHANGED <<sim_item, simRest>>

SimNext ==
    \/ Sim_push_item
    \/ Sim_next_note

SpecSim == SimInit /\ [][SimNext]_vars

----------------------------------------------------------------------------
(* Properties of SpecPitch. *)

Letters == {"A", "B", "C", "D", "E", "F", "G"}

Accidentals == -3..3

\* The semitone of a natural letter above C.
LetterBase(l) ==
    CASE l = "C" -> 0 [] l = "D" -> 2 [] l = "E" -> 4 [] l = "F" -> 5
      [] l = "G" -> 7 [] l = "A" -> 9 [] l = "B" -> 11

\* C1: pitch() of a spelling is the pitch class whose semitone is
\* (letter base + accidental count) mod 12.
C1_PitchIsLetterPlusAccidental ==
    np_ret.op = "pitch" =>
        /\ np_ret.ret.kind = "Ok"
        /\ PitchSemitone(np_ret.ret.value)
             = (LetterBase(letter(np_ret.self)) + accidental(np_ret.self) + 12) % 12

\* C1 witness: pitch() of B triple sharp (11 + 3 wraps to 2) has returned D.
C1_Witness ==
    /\ np_ret.op = "pitch"
    /\ np_ret.self = "BTripleSharp"
    /\ np_ret.ret = Ok("D")

\* C3 as claimed: an addition NamedPitch + i8 never panics.
C3_AddNeverPanics ==
    np_ret.op = "add" => np_ret.ret.kind # "Panic"

\* C5 as claimed: two different spellings of the same pitch compare equal,
\* and their display names differ.
C5_EnharmonicSpellingsCompareEqual ==
    (/\ np_ret.op \in {"eq", "cmp"}
     /\ np_ret.self # np_ret.arg
     /\ pitch(np_ret.self) = pitch(np_ret.arg))
    => /\ np_ret.op = "eq" => np_ret.ret.value = TRUE
       /\ np_ret.op = "cmp" => np_ret.ret.value = "Equal"
       /\ static_name(np_ret.self) # static_name(np_ret.arg)

\* C5 as amended: equality and ordering follow the spelling: two values
\* compare equal exactly when they are the same spelling, so two different
\* spellings of one pitch are unequal; different spellings have different
\* display names.
C5_EqualityFollowsSpelling ==
    /\ np_ret.op = "eq" =>
           (np_ret.ret.value <=> np_ret.self = np_ret.arg)
    /\ np_ret.op = "cmp" =>
           ((np_ret.ret.value = "Equal") <=> np_ret.self = np_ret.arg)
    /\ (np_ret.op \in {"eq", "cmp"} /\ np_ret.self # np_ret.arg) =>
           static_name(np_ret.self) # static_name(np_ret.arg)

\* C5 witness: E sharp == F has returned false although both sound as F.
C5_Witness ==
    /\ np_ret.op = "eq"
    /\ np_ret.self = "ESharp"
    /\ np_ret.arg = "F"
    /\ pitch(np_ret.self) = pitch(np_ret.arg)
    /\ np_ret.ret = Ok(FALSE)

\* C7: the entries of ALL_PITCHES are pairwise distinct, they are exactly the
\* 7 letters combined with the 7 accidental counts, and pitch() maps them onto
\* all 12 pitch classes, each reached by more than one spelling.
C7_AllPitchesTable ==
    np_ret.op = "pitch" =>
        LET entries == {ALL_PITCHES[i] : i \in DOMAIN ALL_PITCHES} IN
        /\ np_ret.self \in entries
        /\ \A i, j \in DOMAIN ALL_PITCHES :
               i # j => ALL_PITCHES[i] # ALL_PITCHES[j]
        /\ Len(ALL_PITCHES) = Cardinality(Letters) * Cardinality(Accidentals)
        /\ {<<letter(p), accidental(p)>> : p \in entries}
               = Letters \X Accidentals
        /\ {pitch(p) : p \in entries} = Pitch
        /\ \A c \in Pitch : Cardinality({p \in entries : pitch(p) = c}) > 1

\* C7 witness: pitch() of G double flat has returned F, which F, E sharp and
\* D triple sharp reach too.
C7_Witness ==
    /\ np_ret.op = "pitch"
    /\ np_ret.self = "GDoubleFlat"
    /\ np_ret.ret = Ok("F")
    /\ {p \in NamedPitch : pitch(p) = "F"}
           = {"GDoubleFlat", "F", "ESharp", "DTripleSharp"}

\* C12: the range guard of NamedPitch + i8 accepts exactly the sums that are
\* positions of ALL_PITCHES (0..=48): an accepted addition returns the entry
\* at index + rhs, every other addition stops with "NamedPitch out of range.".
C12_GuardAcceptsExactlyTheTable ==
    np_ret.op = "add" =>
        LET sum == position(np_ret.self)[1] + np_ret.arg IN
        IF 0 <= sum /\ sum <= 48
        THEN np_ret.ret = Ok(ALL_PITCHES[sum + 1])
        ELSE np_ret.ret = Panic("NamedPitch out of range.")

\* The letters in the order of the spelling table, a fifth apart, and the
\* letter after each (B wraps to F).
FifthsCycle == <<"F", "C", "G", "D", "A", "E", "B">>

NextInFifths(l) ==
    LET i == CHOOSE k \in DOMAIN FifthsCycle : FifthsCycle[k] = l IN
    FifthsCycle[(i % Len(FifthsCycle)) + 1]

\* C13: for every spelling p but the last of the table, p + 1 is a perfect
\* fifth up (pitch class + 7 mod 12) on the next letter of the cycle
\* F, C, G, D, A, E, B; and p + 7, where the table has it, keeps the letter
\* of p and is one semitone up.
C13_StepIsPerfectFifth ==
    /\ (/\ np_ret.op = "add"
        /\ np_ret.arg = 1
        /\ np_ret.self # ALL_PITCHES[Len(ALL_PITCHES)])
       => /\ np_ret.ret.kind = "Ok"
          /\ PitchSemitone(pitch(np_ret.ret.value))
                 = (PitchSemitone(pitch(np_ret.self)) + 7) % 12
          /\ letter(np_ret.ret.value) = NextInFifths(letter(np_ret.self))
    /\ (/\ np_ret.op = "add"
        /\ np_ret.arg = 7
        /\ position(np_ret.self)[1] + 7 < Len(ALL_PITCHES))
       => /\ np_ret.ret.kind = "Ok"
          /\ PitchSemitone(pitch(np_ret.ret.value))
                 = (PitchSemitone(pitch(np_ret.self)) + 1) % 12
          /\ letter(np_ret.ret.value) = letter(np_ret.self)

\* C13 witness: B triple flat + 1 has returned F double flat (the letter
\* wraps), or B flat + 7 has returned B.
C13_Witness ==
    /\ np_ret.op = "add"
    /\ \/ /\ np_ret.self = "BTripleFlat"
          /\ np_ret.arg = 1
          /\ np_ret.ret = Ok("FDoubleFlat")
       \/ /\ np_ret.self = "BFlat"
          /\ np_ret.arg = 7
          /\ np_ret.ret = Ok("B")

\* The glyphs of an accidental count.
AccidentalGlyphs(n) ==
    CASE n = -3 -> <<FLAT, DOUBLE_FLAT>>
      [] n = -2 -> <<DOUBLE_FLAT>>
      [] n = -1 -> <<FLAT>>
      [] n = 0 -> <<>>
      [] n = 1 -> <<SHARP>>
      [] n = 2 -> <<DOUBLE_SHARP>>
      [] n = 3 -> <<SHARP, DOUBLE_SHARP>>

\* C14: static_name() of a spelling is its letter followed by the glyphs of
\* its accidental count, and no other spelling has that display name.
C14_StaticNameIsLetterAndGlyphs ==
    np_ret.op = "static_name" =>
        /\ np_ret.ret = Ok(<<letter(np_ret.self)>>
                               \o AccidentalGlyphs(accidental(np_ret.self)))
        /\ \A q \in NamedPitch :
              static_name(q) = np_ret.ret.value => q = np_ret.self

\* C14 witness: static_name() of C triple sharp has returned C, sharp, double
\* sharp.
C14_Witness ==
    /\ np_ret.op = "static_name"
    /\ np_ret.self = "CTripleSharp"
    /\ np_ret.ret = Ok(<<"C", SHARP, DOUBLE_SHARP>>)

----------------------------------------------------------------------------
(* Properties of SpecParse. *)

\* C6 as claimed: the display name of every spelling parses back to the note
\* of that spelling.
C6_DisplayNameParsesBack ==
    (parse_ret.op = "note_str_to_note" /\ parse_ret.self # "none") =>
        /\ parse_ret.ret.kind = "Ok"
        /\ parse_ret.ret.value.named_pitch = parse_ret.self

\* C6 as amended: the display name of a spelling with at most a double
\* accidental parses back to the note of that spelling; the display name of a
\* triple flat or triple sharp spelling is refused with an Err.
C6_DisplayNameParsesBackUpToDouble ==
    (parse_ret.op = "note_str_to_note" /\ parse_ret.self # "none") =>
        /\ parse_ret.arg = static_name(parse_ret.self)
        /\ IF accidental(parse_ret.self) \in -2..2
           THEN /\ parse_ret.ret.kind = "Ok"
                /\ parse_ret.ret.value.named_pitch = parse_ret.self
           ELSE parse_ret.ret.kind = "Err"

\* C6 witness: the display name of B flat has been parsed back to B flat.
C6_Witness ==
    /\ parse_ret.op = "note_str_to_note"
    /\ parse_ret.self = "BFlat"
    /\ parse_ret.arg = <<"B", FLAT>>
    /\ parse_ret.ret.kind = "Ok"
    /\ parse_ret.ret.value.named_pitch = "BFlat"

\* The nine accidental forms the parser reads, and the count each stands for.
AccidentalForms ==
    {<<>>, <<"#">>, <<SHARP>>, <<"#", "#">>, <<DOUBLE_SHARP>>,
     <<"b">>, <<FLAT>>, <<"b", "b">>, <<DOUBLE_FLAT>>}

FormAccidental(f) ==
    CASE f = <<>> -> 0
      [] f \in {<<"#">>, <<SHARP>>} -> 1
      [] f \in {<<"#", "#">>, <<DOUBLE_SHARP>>} -> 2
      [] f \in {<<"b">>, <<FLAT>>} -> -1
      [] f \in {<<"b", "b">>, <<DOUBLE_FLAT>>} -> -2

\* C8: note_str_to_note returns Ok exactly for a letter A..G followed by one
\* of the nine accidental forms, the note having that letter and that form's
\* accidental count (so the ASCII and the Unicode form give the same note); it
\* returns Err for every other string and never panics.
C8_NoteStrToNoteAcceptsExactly ==
    parse_ret.op = "note_str_to_note" =>
        LET s == parse_ret.arg
            valid == /\ Len(s) >= 1
                     /\ s[1] \in Letters
                     /\ Tail(s) \in AccidentalForms
        IN  IF valid
            THEN /\ parse_ret.ret.kind = "Ok"
                 /\ letter(parse_ret.ret.value.named_pitch) = s[1]
                 /\ accidental(parse_ret.ret.value.named_pitch)
                        = FormAccidental(Tail(s))
            ELSE parse_ret.ret.kind = "Err"

\* C8 witness: the ASCII triple sharp "A###" has been refused with an Err.
C8_Witness ==
    /\ parse_ret.op = "note_str_to_note"
    /\ parse_ret.arg = <<"A", "#", "#", "#">>
    /\ parse_ret.ret.kind = "Err"

\* The value of a digit.
DigitValue(c) ==
    CASE c = "0" -> 0 [] c = "1" -> 1 [] c = "2" -> 2 [] c = "3" -> 3
      [] c = "4" -> 4 [] c = "5" -> 5 [] c = "6" -> 6 [] c = "7" -> 7
      [] c = "8" -> 8 [] c = "9" -> 9

\* C9: octave_str_to_octave returns the octave n exactly for the ten strings
\* of one digit, n being the digit's value, and returns Err, without
\* panicking, for every other string.
C9_OctaveStrToOctaveAcceptsExactly ==
    parse_ret.op = "octave_str_to_octave" =>
        LET s == parse_ret.arg IN
        IF Len(s) = 1 /\ s[1] \in Digits
        THEN /\ parse_ret.ret.kind = "Ok"
             /\ OctaveValue(parse_ret.ret.value) = DigitValue(s[1])
        ELSE parse_ret.ret.kind = "Err"

\* C9 witness: "10" has been refused with an Err.
C9_Witness ==
    /\ parse_ret.op = "octave_str_to_octave"
    /\ parse_ret.arg = <<"1", "0">>
    /\ parse_ret.ret.kind = "Err"

----------------------------------------------------------------------------
(* Properties of SpecWasm. *)

\* C2: KordNote.addInterval returns the transposed note when it lies in the
\* representable octaves, and returns the typed failure InvalidOctaveRange,
\* not an abort, when it does not.
C2_AddIntervalReturnsTypedFailure ==
    wasm_ret.op = "addInterval" =>
        LET id == Note_id(kord_notes[wasm_ret.self].inner) + wasm_ret.arg IN
        IF 0 <= id /\ id <= MaxNoteId
        THEN /\ wasm_ret.ret.kind = "Ok"
             /\ Note_id(wasm_ret.ret.value.inner) = id
        ELSE wasm_ret.ret = Err("InvalidOctaveRange")

\* C4: no call changes an object the host holds: withInversion, withSlash,
\* withOctave, withCrunchy, copy, chord and addInterval return new values
\* and leave their receiver (and every other object) as it was, whether
\* they succeed or fail.
C4_ReceiversUnchanged ==
    [][/\ \A h \in DOMAIN kord_chords :
            h \in DOMAIN kord_chords' /\ kord_chords'[h] = kord_chords[h]
       /\ \A h \in DOMAIN kord_notes :
            h \in DOMAIN kord_notes' /\ kord_notes'[h] = kord_notes[h]]_vars

\* C4 witness: withInversion has returned a chord whose inversion differs
\* from its receiver's.
C4_Witness ==
    /\ wasm_ret.op = "withInversion"
    /\ wasm_ret.ret.kind = "Ok"
    /\ wasm_ret.ret.value.inner.inversion = 2
    /\ kord_chords[wasm_ret.self].inner.inversion = 0

----------------------------------------------------------------------------
(* Properties of SpecRef. *)

\* The three checks, as the value itself decides them.
HasNumericPtr(abi) == abi.kind # "primitive" /\ abi.ptr.type = "number"

IsObject(abi) == abi.kind = "object"

IsConstructedBy(abi, type) == abi.constructor = type

\* C15: ref_from_js_value dereferences the pointer only after the three
\* checks have been made in the order numeric "ptr", instance of Object,
\* constructor named as the type, and have all passed; when a check fails it
\* returns an error and has not dereferenced the pointer.
C15_DereferenceOnlyAfterChecks ==
    /\ (\E k \in DOMAIN ref_trace : ref_trace[k] = "ref_from_abi")
       => /\ ref_trace = <<"get_ptr", "dyn_ref", "constructor", "ref_from_abi">>
          /\ HasNumericPtr(ref_abi)
          /\ IsObject(ref_abi)
          /\ IsConstructedBy(ref_abi, ref_type)
    /\ (/\ ref_pc = "done"
        /\ ~(/\ HasNumericPtr(ref_abi)
             /\ IsObject(ref_abi)
             /\ IsConstructedBy(ref_abi, ref_type)))
       => /\ ref_ret.ret.kind = "Err"
          /\ \A k \in DOMAIN ref_trace : ref_trace[k] # "ref_from_abi"
    /\ \A k \in DOMAIN ref_trace :
          ref_trace[k] = <<"get_ptr", "dyn_ref", "constructor", "ref_from_abi">>[k]

\* C15 witness: a call has returned the reference to the KordNote at
\* pointer 1 after the three checks, and (in another run) a call on an object
\* constructed by KordNotes has returned the error of the third check.
C15_Witness ==
    /\ ref_pc = "done"
    /\ \/ /\ ref_ret.ret = Ok([anchor |-> "1"])
          /\ ref_type = "KordNote"
          /\ Len(ref_trace) = 4
       \/ /\ ref_ret.ret = Err("Invalid object type.")
          /\ ref_abi.constructor = "KordNotes"
          /\ ref_trace = <<"get_ptr", "dyn_ref", "constructor">>

----------------------------------------------------------------------------
(* Properties of SpecNotes. *)

IsIdentification(call) == call.fn = "Chord::try_from_notes"

\* C16: fromNotesString is all-or-nothing: when a token of the string does
\* not parse as a note it returns the error of the first such token and has
\* not called the identification; otherwise it has called the
\* identification exactly once, on the notes of all tokens in their order.
C16_FromNotesStringAllOrNothing ==
    ns_ret.op = "fromNotesString" =>
        LET tokens == split_whitespace(ns_notes)
            notes == [k \in DOMAIN tokens |-> Note_parse(tokens[k])]
            failing == {k \in DOMAIN tokens : notes[k].kind = "Err"}
            identifications == SelectSeq(ns_calls, IsIdentification)
        IN  IF failing # {}
            THEN /\ ns_ret.ret.kind = "Err"
                 /\ \E k \in failing :
                       /\ \A j \in failing : k <= j
                       /\ ns_ret.ret.value = notes[k].value
                 /\ identifications = <<>>
            ELSE /\ Len(identifications) = 1
                 /\ identifications[1].arg
                        = [k \in DOMAIN tokens |-> notes[k].value]

\* C16 witness: fromNotesString("C X E") has returned the error of X without
\* an identification.
C16_Witness ==
    /\ ns_ret.op = "fromNotesString"
    /\ ns_notes = <<"C", " ", "X", " ", "E">>
    /\ ns_ret.ret = Err(<<"not a note", <<"X">> >>)
    /\ ns_calls = <<EngineCall("Note::parse", <<"C">>),
                    EngineCall("Note::parse", <<"X">>)>>

----------------------------------------------------------------------------
(* Properties of SpecModifier. *)

\* C17: the conversion Modifier -> KordModifier is defined for the 12
\* modifiers, gives different KordModifier values for different modifiers,
\* and every KordModifier value is the image of a modifier.
C17_ModifierConversionIsOneToOne ==
    /\ Modifier = {"Minor", "Flat5", "Augmented5", "Major7", "Dominant(Seven)",
                   "Dominant(Nine)", "Dominant(Eleven)", "Dominant(Thirteen)",
                   "Flat9", "Sharp9", "Sharp11", "Diminished"}
    /\ Cardinality(Modifier) = 12
    /\ mod_ret.op = "from" =>
          /\ mod_ret.ret.kind = "Ok"
          /\ mod_ret.ret.value \in KordModifier
          /\ \A other \in Modifier :
                KordModifier_from(other) = mod_ret.ret.value
                    => other = mod_ret.arg
          /\ \A k \in KordModifier : \E m \in Modifier : KordModifier_from(m) = k

\* C17 witness: the dominant at degree nine has been converted to Dominant9.
C17_Witness ==
    /\ mod_ret.op = "from"
    /\ mod_ret.arg = "Dominant(Nine)"
    /\ mod_ret.ret = Ok("Dominant9")

----------------------------------------------------------------------------
(* Properties of SpecSim. *)

\* C18: the label of every simulated item has 1, 1, 2, 3, 4 bits set for the
\* chord types 0..4; its lowest bit is the root's, which is one of 24..83;
\* the other bits are 1..5, then 6..9, then 10..22 above it; every bit is one
\* of 0..127.
C18_LabelBitsOfSimulatedItems ==
    sim_item # None =>
        LET item == sim_item[1]
            root == Note_id(item.root)
        IN  /\ item.ret.kind = "Ok"
            /\ LET label == item.ret.value.label
                   above == {bit - root : bit \in label \ {root}}
               IN  /\ Cardinality(label) = <<1, 1, 2, 3, 4>>[item.k + 1]
                   /\ root \in label
                   /\ \A bit \in label : root <= bit /\ bit \in 0..127
                   /\ root \in 24..83
                   /\ item.k >= 2 => Cardinality(above \cap 1..5) = 1
                   /\ item.k >= 3 => Cardinality(above \cap 6..9) = 1
                   /\ item.k >= 4 => Cardinality(above \cap 10..22) = 1
                   /\ above \subseteq 1..22

\* C18 witness: the item of chord type 4 on the last root, B6 (83), with the
\* widest picks, has the label of 83, 88, 92 and 105.
C18_Witness ==
    /\ sim_item # None
    /\ sim_item[1].k = 4
    /\ sim_item[1].ret = Ok([label |-> {83, 88, 92, 105}])

====
